---- MODULE Spec2Model ----
(***************************************************************************)
(* The agent process orchestrator of src/lib/agent-service.ts as a state   *)
(* machine: the registry agentProcesses, the startAgent calls in flight    *)
(* (one step per stretch of code between two awaits), stopAgent, the       *)
(* child-process 'error' and 'exit' handlers, and the presence check       *)
(* checkAgentInRoom / getFullAgentStatus.                                  *)
(***************************************************************************)
EXTENDS Integers, FiniteSets, Sequences, TLC

VARIABLES
    agentProcesses,  \* the Map roomName -> {process, status, error, pid, startTime}
    calls,           \* the startAgent calls, each at its await point
    procs,           \* the launch of each call: its child process, events, log streams
    lastStop,        \* the last stopAgent call: its room and what it returned
    now,             \* the clock read by new Date() / Date.now()
    queries,         \* the checkAgentInRoom / getFullAgentStatus calls
    orchestrator,    \* the process that runs this module: "up" or "exited"
    request,         \* middleware.ts: a request and the response it is given
    conversation     \* use-conversation-context.tsx: the hook's size and messagesRef

vars == <<agentProcesses, calls, procs, lastStop, now, queries, orchestrator,
          request, conversation>>

\* the state of the two modules that stand apart from the agent service
otherVars == <<request, conversation>>

launcherVars == <<agentProcesses, calls, procs, lastStop, now>>

-----------------------------------------------------------------------------
(* Bounds of the model *)

MaxCalls == 2

\* the longest participant list the external service answers with
MaxParticipants == 1

\* the clock is followed for this many half grace periods
MaxTicks == 3

Rooms == {"r1", "r2"}

Calls == 1..MaxCalls

\* the presence checks: two, so that two invocations can be compared
Queries == {1, 2}

-----------------------------------------------------------------------------
(* Values *)

\* JavaScript's undefined, where a number is expected
Undefined == -1

\* the pid the operating system gives the child of launch p
OsPid(p) == p

\* error.message of the 'error' event of launch p
ErrorMessage(p) == p

NoError == 0

\* A launch: st is "none" (not made), "threw" (spawn threw), "spawned",
\* "signalled" (spawned, and stopAgent delivered SIGTERM), "exited" ('exit'
\* handled) or "pipeClosed" (ended by a write to a pipe nobody reads);
\* mayError says that the child can still emit 'error'; roomAnswer
\* is history: the answer of the external service the launch went ahead on
NoProc == [room |-> "", st |-> "none", pid |-> Undefined, mayError |-> FALSE,
           roomAnswer |-> "none", streamsOpen |-> FALSE, stamp |-> 0]

Alive == {"spawned", "signalled"}

NoResult == [success |-> FALSE, alreadyRunning |-> FALSE, pid |-> Undefined,
             error |-> FALSE]

\* raced and afterExit are history, written when the call begins
IdleCall == [pc |-> "idle", room |-> "", raced |-> FALSE, afterExit |-> FALSE,
             result |-> NoResult]

NoStop == [room |-> "", kill |-> "none", returned |-> "none"]

\* a header that the request does not carry: headers.get returns null
NoHeader == [present |-> FALSE, value |-> <<>>]

NoRequest == [pathname |-> <<>>, origin |-> NoHeader, host |-> NoHeader,
              response |-> "none"]

\* supplied is history: the messages given to the hook since the last
\* clearMessages or updateMessages, in the order given
NoConversation == [maxContextSize |-> 0, messages |-> <<>>, supplied |-> <<>>]

-----------------------------------------------------------------------------
(* The registry: Map operations *)

MapHas(m, k) == k \in DOMAIN m

\* a map kept for comparison: set leaves the map as it was
MapSet_Ignored(m, k, v) == m

MapSet(m, k, v) == [x \in (DOMAIN m) \cup {k} |-> IF x = k THEN v ELSE m[x]]

MapDelete(m, k) == [x \in (DOMAIN m) \ {k} |-> m[x]]

EmptyMap == [x \in {} |-> 0]

\* a check kept for comparison: only a record that reached running counts
isAgentRunning_RunningOnly(roomName) ==
    /\ MapHas(agentProcesses, roomName)
    /\ agentProcesses[roomName].status = "running"

\* a check kept for comparison: any record counts, a record in error too
isAgentRunning_AnyRecord(roomName) == MapHas(agentProcesses, roomName)

\* agent-service.ts 47-50
isAgentRunning(roomName) ==
    /\ MapHas(agentProcesses, roomName)
    /\ agentProcesses[roomName].status # "error"

\* Math.floor((now - startTime) / 1000)
Uptime(startTime) == (now - startTime) \div 1000

\* 65: { running: false }
NotRunningStatus ==
    [running |-> FALSE, pid |-> Undefined, status |-> "undefined",
     error |-> Undefined, uptime |-> Undefined]

\* a query kept for comparison: a record in error is reported as no record
getAgentStatus_HidesError(roomName) ==
    IF ~MapHas(agentProcesses, roomName) \/ agentProcesses[roomName].status = "error"
    THEN NotRunningStatus
    ELSE LET agentProcess == agentProcesses[roomName]
         IN [running |-> TRUE,
             pid |-> agentProcess.pid,
             status |-> agentProcess.status,
             error |-> Undefined,
             uptime |-> Uptime(agentProcess.startTime)]

\* agent-service.ts 55-77; a field that is absent reads Undefined
getAgentStatus(roomName) ==
    IF ~MapHas(agentProcesses, roomName)
    THEN NotRunningStatus
    ELSE LET agentProcess == agentProcesses[roomName]
         IN [running |-> agentProcess.status # "error",
             pid |-> agentProcess.pid,
             status |-> agentProcess.status,
             error |-> IF agentProcess.error = NoError THEN Undefined
                       ELSE agentProcess.error,
             uptime |-> Uptime(agentProcess.startTime)]

-----------------------------------------------------------------------------
(* The external conferencing service, as the outcomes of its queries *)

GetRoomOutcomes == {"found", "notFound", "failed"}

CreateRoomOutcomes == {"created", "failed"}

\* fs.writeFileSync of the script: it returns or throws
WriteOutcomes == {"written", "throws"}

\* child_process.spawn: a child with a pid, a child whose spawn fails
\* asynchronously (no pid, 'error' is emitted later), or a synchronous throw
SpawnOutcomes == {"spawned", "asyncFail", "throws"}

\* ChildProcess.kill: true, false, or a throw
KillOutcomes == {"delivered", "notDelivered", "throws"}

\* a lookup kept for comparison: every answer counts as the room being there
roomExists_Always(getRoomOutcome) == TRUE

\* livekit-server.ts 128-135: !!room, and false when getRoom fails
roomExists(getRoomOutcome) == getRoomOutcome = "found"

-----------------------------------------------------------------------------
(* startAgent, agent-service.ts 384-515 *)

AlreadyRunningResult(roomName) ==
    [success |-> TRUE, alreadyRunning |-> TRUE,
     pid |-> getAgentStatus(roomName).pid, error |-> FALSE]

\* the catch block, 508-514
FailedResult_NoMessage ==
    [success |-> FALSE, alreadyRunning |-> FALSE, pid |-> Undefined, error |-> FALSE]

FailedResult ==
    [success |-> FALSE, alreadyRunning |-> FALSE, pid |-> Undefined, error |-> TRUE]

\* the return after the grace period, 504-507
LaunchedResult(p) ==
    [success |-> TRUE, alreadyRunning |-> FALSE, pid |-> procs[p].pid, error |-> FALSE]

\* History, for the claims: the call begins while another call for the same
\* room has passed the check at 393 and has not yet registered its record,
\* and the room has no record
BeginsInRace(c, roomName) ==
    /\ ~MapHas(agentProcesses, roomName)
    /\ \E d \in Calls \ {c} : /\ calls[d].room = roomName
                               /\ calls[d].pc \in {"roomExists", "createRoom"}

\* History, for the claims: the call begins when a process of the room has
\* exited and the room has no record
BeginsAfterExit(roomName) ==
    /\ ~MapHas(agentProcesses, roomName)
    /\ \E p \in Calls : procs[p].room = roomName /\ procs[p].st = "exited"

\* 390-401: the check, and the first await. Calls are numbered in the order
\* in which they are made.
StartAgentBegin(c, roomName) ==
    /\ calls[c].pc = "idle"
    /\ c > 1 => calls[c - 1].pc # "idle"
    /\ IF isAgentRunning(roomName)
       THEN calls' = [calls EXCEPT ![c] = [pc |-> "done", room |-> roomName,
                                           raced |-> BeginsInRace(c, roomName),
                                           afterExit |-> BeginsAfterExit(roomName),
                                           result |-> AlreadyRunningResult(roomName)]]
       ELSE calls' = [calls EXCEPT ![c] = [pc |-> "roomExists", room |-> roomName,
                                           raced |-> BeginsInRace(c, roomName),
                                           afterExit |-> BeginsAfterExit(roomName),
                                           result |-> NoResult]]
    /\ UNCHANGED <<agentProcesses, procs, lastStop, now, queries, orchestrator, otherVars>>

\* 451-456: the record stored for the child of launch p
StartingRecord(p, pid) ==
    [process |-> p, status |-> "starting", error |-> NoError,
     pid |-> IF pid = Undefined THEN 0 ELSE pid, startTime |-> now]

\* 376: path.join(AGENT_DIR, `agent-${roomName}-${Date.now()}.js`), for the
\* launch p; the clock is read in the synchronous stretch of the launch
ScriptPath(p) == <<"AGENT_DIR", "agent-", procs[p].room, "-", procs[p].stamp, ".js">>

\* 423: path.join(logDir, `agent-${roomName}-${Date.now()}.log`)
LogPath(p) ==
    <<"AGENT_DIR", "logs", "agent-", procs[p].room, "-", procs[p].stamp, ".log">>

\* 424: path.join(logDir, `agent-${roomName}-${Date.now()}-error.log`)
ErrorLogPath(p) ==
    <<"AGENT_DIR", "logs", "agent-", procs[p].room, "-", procs[p].stamp, "-error.log">>

\* 411-493: from generateAgentScript to the await of the grace-period timer,
\* one synchronous stretch
LaunchSteps(c, roomAnswer, write, spawn) ==
    LET roomName == calls[c].room
        p == c
        pid == IF spawn = "spawned" THEN OsPid(p) ELSE Undefined
    IN IF write = "throws"
       THEN /\ calls' = [calls EXCEPT ![c].pc = "done", ![c].result = FailedResult]
            /\ UNCHANGED <<agentProcesses, procs>>
       ELSE IF spawn = "throws"
       THEN /\ procs' = [procs EXCEPT ![p] =
                   [NoProc EXCEPT !.room = roomName, !.st = "threw",
                                  !.roomAnswer = roomAnswer,
                                  !.streamsOpen = TRUE, !.stamp = now]]
            /\ calls' = [calls EXCEPT ![c].pc = "done", ![c].result = FailedResult]
            /\ UNCHANGED agentProcesses
       ELSE /\ procs' = [procs EXCEPT ![p] =
                   [NoProc EXCEPT !.room = roomName, !.st = "spawned",
                                  !.roomAnswer = roomAnswer,
                                  !.pid = pid, !.mayError = TRUE,
                                  !.streamsOpen = TRUE, !.stamp = now]]
            /\ agentProcesses' =
                   MapSet(agentProcesses, roomName, StartingRecord(p, pid))
            /\ calls' = [calls EXCEPT ![c].pc = "grace"]

\* 406 (room found), then 411-493; the answer is kept as history when
\* recorded says so
RoomFoundOn(c, getRoomOutcome, write, spawn, recorded) ==
    /\ calls[c].pc = "roomExists"
    /\ roomExists(getRoomOutcome)
    /\ LaunchSteps(c, IF recorded THEN getRoomOutcome ELSE "none", write, spawn)
    /\ UNCHANGED <<lastStop, now, queries, orchestrator, otherVars>>

RoomFound(c, getRoomOutcome, write, spawn) ==
    RoomFoundOn(c, getRoomOutcome, write, spawn, FALSE)

\* 406-408 (room not found): the await of createRoom
RoomMissing(c, getRoomOutcome) ==
    /\ calls[c].pc = "roomExists"
    /\ ~roomExists(getRoomOutcome)
    /\ calls' = [calls EXCEPT ![c].pc = "createRoom"]
    /\ UNCHANGED <<agentProcesses, procs, lastStop, now, queries, orchestrator, otherVars>>

\* 408 resolved, then 411-493; a rejection goes to the catch block
CreateRoomReturnsOn(c, createOutcome, write, spawn, recorded) ==
    /\ calls[c].pc = "createRoom"
    /\ IF createOutcome = "failed"
       THEN /\ calls' = [calls EXCEPT ![c].pc = "done", ![c].result = FailedResult]
            /\ UNCHANGED <<agentProcesses, procs>>
       ELSE LaunchSteps(c, IF recorded THEN createOutcome ELSE "none", write, spawn)
    /\ UNCHANGED <<lastStop, now, queries, orchestrator, otherVars>>

CreateRoomReturns(c, createOutcome, write, spawn) ==
    CreateRoomReturnsOn(c, createOutcome, write, spawn, FALSE)

\* a check kept for comparison: the test of the status is inverted
PromotesToRunning_Inverted(roomName) ==
    /\ MapHas(agentProcesses, roomName)
    /\ agentProcesses[roomName].status = "error"

\* a check kept for comparison: the status is not looked at
PromotesToRunning_IgnoresError(roomName) == MapHas(agentProcesses, roomName)

\* 497: the record the grace-period check promotes
PromotesToRunning(roomName) ==
    /\ MapHas(agentProcesses, roomName)
    /\ agentProcesses[roomName].status # "error"

\* a wait kept for comparison: the timer is dropped with the room's record
GraceExpires_OnlyWhileRecorded(c) ==
    /\ calls[c].pc = "grace"
    /\ MapHas(agentProcesses, calls[c].room)
    /\ agentProcesses' =
           IF PromotesToRunning(calls[c].room)
           THEN [agentProcesses EXCEPT ![calls[c].room].status = "running"]
           ELSE agentProcesses
    /\ calls' = [calls EXCEPT ![c].pc = "done",
                              ![c].result = LaunchedResult(c)]
    /\ UNCHANGED <<procs, lastStop, now, queries, orchestrator, otherVars>>

\* 495-507: after the timer
GraceExpires(c) ==
    /\ calls[c].pc = "grace"
    /\ agentProcesses' =
           IF PromotesToRunning(calls[c].room)
           THEN [agentProcesses EXCEPT ![calls[c].room].status = "running"]
           ELSE agentProcesses
    /\ calls' = [calls EXCEPT ![c].pc = "done",
                              ![c].result = LaunchedResult(c)]
    /\ UNCHANGED <<procs, lastStop, now, queries, orchestrator, otherVars>>

-----------------------------------------------------------------------------
(* The child's event handlers, agent-service.ts 473-489 *)

\* a handler kept for comparison: the status is set, the message is dropped
RegistryOnError_NoMessage(roomName, p) ==
    IF MapHas(agentProcesses, roomName)
    THEN [agentProcesses EXCEPT ![roomName].status = "error"]
    ELSE agentProcesses

\* 474-478
RegistryOnError(roomName, p) ==
    IF MapHas(agentProcesses, roomName)
    THEN [agentProcesses EXCEPT ![roomName].status = "error",
                                ![roomName].error = ErrorMessage(p)]
    ELSE agentProcesses

\* 473-480: 'error' of the child of launch p
ErrorEvent(p) ==
    /\ procs[p].st \in Alive
    /\ procs[p].mayError
    /\ procs' = [procs EXCEPT ![p].mayError = FALSE]
    /\ agentProcesses' = RegistryOnError(procs[p].room, p)
    /\ UNCHANGED <<calls, lastStop, now, queries, orchestrator, otherVars>>

\* the (code, signal) of an 'exit' event: exit code 0, another exit code, or
\* death by a signal
ExitReasons == {"code0", "codeNonZero", "signal"}

\* a handler kept for comparison: the record is removed only on a failure
RegistryOnExit_FailureOnly(roomName, reason) ==
    IF reason = "code0" THEN agentProcesses ELSE MapDelete(agentProcesses, roomName)

\* a handler kept for comparison: the exit of one child empties the registry
RegistryOnExit_ClearsAll(roomName, reason) == EmptyMap

\* 483
RegistryOnExit(roomName, reason) == MapDelete(agentProcesses, roomName)

\* 482-489: 'exit' of the child of launch p, whatever the code or signal
ExitEvent(p, reason) ==
    /\ procs[p].st \in Alive
    /\ procs' = [procs EXCEPT ![p].st = "exited", ![p].mayError = FALSE,
                              ![p].streamsOpen = FALSE]
    /\ agentProcesses' = RegistryOnExit(procs[p].room, reason)
    /\ UNCHANGED <<calls, lastStop, now, queries, orchestrator, otherVars>>

-----------------------------------------------------------------------------
(* stopAgent, agent-service.ts 520-538 *)

\* what kill can answer for the record's process: only a child that was
\* spawned can be signalled
KillAnswers(roomName) ==
    IF procs[agentProcesses[roomName].process].pid = Undefined
    THEN KillOutcomes \ {"delivered"}
    ELSE KillOutcomes

\* a return kept for comparison: stopping what is not there counts as done
StopReturned_TrueWhenAbsent(roomName, kill) ==
    IF ~MapHas(agentProcesses, roomName) THEN "true"
    ELSE IF kill = "delivered" THEN "true"
    ELSE "false"

\* a return kept for comparison: a throw of kill reaches the caller
StopReturned_Uncaught(roomName, kill) ==
    IF ~MapHas(agentProcesses, roomName) THEN "false"
    ELSE IF kill = "delivered" THEN "true"
    ELSE IF kill = "throws" THEN "raised"
    ELSE "false"

\* 523-525, 529-537: the value returned; a throw of kill is caught at 533
StopReturned(roomName, kill) ==
    IF ~MapHas(agentProcesses, roomName) THEN "false"
    ELSE IF kill = "delivered" THEN "true"
    ELSE "false"

\* a stop kept for comparison: the record is left for the exit handler
RegistryOnStop_WaitsForExit(roomName, kill) == agentProcesses

\* a stop kept for comparison: the record is removed before kill has answered
RegistryOnStop_BeforeKill(roomName, kill) ==
    IF MapHas(agentProcesses, roomName)
    THEN MapDelete(agentProcesses, roomName)
    ELSE agentProcesses

\* 530
RegistryOnStop(roomName, kill) ==
    IF MapHas(agentProcesses, roomName) /\ kill = "delivered"
    THEN MapDelete(agentProcesses, roomName)
    ELSE agentProcesses

\* 529: the process that receives SIGTERM
SignalOnStop(roomName, kill) ==
    IF MapHas(agentProcesses, roomName) /\ kill = "delivered"
    THEN [procs EXCEPT ![agentProcesses[roomName].process].st = "signalled"]
    ELSE procs

StopAgent(roomName, kill) ==
    /\ MapHas(agentProcesses, roomName) => kill \in KillAnswers(roomName)
    /\ ~MapHas(agentProcesses, roomName) => kill = "notDelivered"
    /\ lastStop' = [room |-> roomName,
                    kill |-> IF MapHas(agentProcesses, roomName) THEN kill ELSE "none",
                    returned |-> StopReturned(roomName, kill)]
    /\ agentProcesses' = RegistryOnStop(roomName, kill)
    /\ procs' = SignalOnStop(roomName, kill)
    /\ UNCHANGED <<calls, now, queries, orchestrator, otherVars>>

-----------------------------------------------------------------------------
(* checkAgentInRoom and getFullAgentStatus, agent-service.ts 561-640 *)

\* participant.identity, as its characters
AgentDash == <<"a", "g", "e", "n", "t", "-">>

Assistant == <<"a", "s", "s", "i", "s", "t", "a", "n", "t">>

Bot == <<"b", "o", "t">>

Identities ==
    { AgentDash \o <<"1">>,          \* agent-1
      <<"r", "o">> \o Bot,           \* robot
      <<"a", "l", "i", "c", "e">> }  \* alice

\* participant.metadata: absent or empty, JSON with isAgent set, JSON without
\* it, or text JSON.parse rejects
Metadata == {"absent", "agentFlag", "noFlag", "unparsable"}

Participants == [metadata : Metadata, identity : Identities]

RECURSIVE SeqsUpTo(_, _)
SeqsUpTo(S, n) ==
    IF n = 0 THEN {<<>>}
    ELSE LET shorter == SeqsUpTo(S, n - 1)
         IN shorter \cup {Append(l, x) : l \in shorter, x \in S}

ParticipantLists == SeqsUpTo(Participants, MaxParticipants)

\* String.prototype.startsWith
StartsWith(str, prefix) ==
    /\ Len(prefix) <= Len(str)
    /\ SubSeq(str, 1, Len(prefix)) = prefix

\* String.prototype.includes
Includes(str, sub) ==
    \E i \in 1..(Len(str) - Len(sub) + 1) : SubSeq(str, i, i + Len(sub) - 1) = sub

\* 595-597
IdentityLooksLikeAgent(identity) ==
    \/ StartsWith(identity, AgentDash)
    \/ Includes(identity, Assistant)
    \/ Includes(identity, Bot)

\* 586-603: one turn of the loop returns true, or goes on to the next
\* participant; metadata that does not parse throws at 588 and the catch at
\* 600 continues
ParticipantIsAgent(participant) ==
    IF participant.metadata = "unparsable" THEN FALSE
    ELSE IF participant.metadata = "agentFlag" THEN TRUE
    ELSE IdentityLooksLikeAgent(participant.identity)

\* 585-604 and 611
RECURSIVE AgentAmong(_)
AgentAmong(participants) ==
    IF participants = <<>> THEN FALSE
    ELSE IF ParticipantIsAgent(Head(participants)) THEN TRUE
    ELSE AgentAmong(Tail(participants))

\* initLivekitClient and the test at 576
ClientOutcomes == {"ready", "configMissing", "noMethod"}

\* Math.random() > 0.7
RandomOutcomes == BOOLEAN

\* 608: the value returned when the inner try fails
OnApiError(random) == random

\* what listParticipants answers: a list, or a failure
ListFailed == [failed |-> TRUE, participants |-> <<>>]

ListOutcomes ==
    {ListFailed} \cup {[failed |-> FALSE, participants |-> l] : l \in ParticipantLists}

NoList == [failed |-> FALSE, participants |-> <<>>]

IdleQuery == [pc |-> "idle", room |-> "", getRoom |-> "none", client |-> "none",
              list |-> NoList, localStatus |-> NotRunningStatus,
              agentInRoom |-> FALSE]

\* a query kept for comparison: reading the status drops a record in error
RegistryOnQuery_ForgetsErrored(roomName) ==
    IF MapHas(agentProcesses, roomName) /\ agentProcesses[roomName].status = "error"
    THEN MapDelete(agentProcesses, roomName)
    ELSE agentProcesses

\* 48, 62, 561-640: the queries only call agentProcesses.get
RegistryOnQuery(roomName) == agentProcesses

\* 629-630, 567: the local status is read, then roomExists is awaited
QueryBegin(q, roomName) ==
    /\ queries[q].pc = "idle"
    /\ q > 1 => queries[q - 1].pc # "idle"
    /\ queries' = [queries EXCEPT ![q] =
           [IdleQuery EXCEPT !.pc = "roomExists", !.room = roomName,
                             !.localStatus = getAgentStatus(roomName)]]
    /\ agentProcesses' = RegistryOnQuery(roomName)
    /\ UNCHANGED <<calls, procs, lastStop, now, orchestrator, otherVars>>

\* 567-582: roomExists has answered
QueryRoomAnswered(q, getRoomOutcome, client, random) ==
    /\ queries[q].pc = "roomExists"
    /\ IF ~roomExists(getRoomOutcome)
       THEN queries' = [queries EXCEPT ![q].pc = "done", ![q].getRoom = getRoomOutcome,
                                       ![q].agentInRoom = FALSE]
       ELSE IF client = "configMissing"
       THEN queries' = [queries EXCEPT ![q].pc = "done", ![q].getRoom = getRoomOutcome,
                                       ![q].client = client,
                                       ![q].agentInRoom = OnApiError(random)]
       ELSE IF client = "noMethod"
       THEN queries' = [queries EXCEPT ![q].pc = "done", ![q].getRoom = getRoomOutcome,
                                       ![q].client = client,
                                       ![q].agentInRoom = FALSE]
       ELSE queries' = [queries EXCEPT ![q].pc = "listParticipants",
                                       ![q].getRoom = getRoomOutcome,
                                       ![q].client = client]
    /\ agentProcesses' = RegistryOnQuery(queries[q].room)
    /\ UNCHANGED <<calls, procs, lastStop, now, orchestrator, otherVars>>

\* 582-611: listParticipants has answered with a list, or has failed
QueryListAnswered(q, list, random) ==
    /\ queries[q].pc = "listParticipants"
    /\ queries' = [queries EXCEPT ![q].pc = "done", ![q].list = list,
                                  ![q].agentInRoom =
                                      IF list.failed THEN OnApiError(random)
                                      ELSE AgentAmong(list.participants)]
    /\ agentProcesses' = RegistryOnQuery(queries[q].room)
    /\ UNCHANGED <<calls, procs, lastStop, now, orchestrator, otherVars>>

\* a report kept for comparison: presence counts only next to a local process
FullStatus_Arbitrated(q) ==
    [localProcessRunning |-> queries[q].localStatus.running,
     agentInRoom |-> queries[q].agentInRoom /\ queries[q].localStatus.running,
     pid |-> queries[q].localStatus.pid,
     status |-> queries[q].localStatus.status,
     error |-> queries[q].localStatus.error,
     uptime |-> queries[q].localStatus.uptime]

\* 632-639: the value getFullAgentStatus returns
FullStatus(q) ==
    [localProcessRunning |-> queries[q].localStatus.running,
     agentInRoom |-> queries[q].agentInRoom,
     pid |-> queries[q].localStatus.pid,
     status |-> queries[q].localStatus.status,
     error |-> queries[q].localStatus.error,
     uptime |-> queries[q].localStatus.uptime]

-----------------------------------------------------------------------------
(* The specification of the presence check.  The registry it reads is one   *)
(* the launcher reaches: empty, or call 1 has launched for room r1 and the  *)
(* record is starting, running or in error.                                 *)

LaunchedOnce(status) ==
    /\ agentProcesses =
           MapSet(EmptyMap, "r1",
                  [process |-> 1, status |-> status,
                   error |-> IF status = "error" THEN ErrorMessage(1) ELSE NoError,
                   pid |-> OsPid(1), startTime |-> 0])
    /\ calls = [c \in Calls |->
                   IF c = 1
                   THEN [pc |-> IF status = "running" THEN "done" ELSE "grace",
                         room |-> "r1", raced |-> FALSE, afterExit |-> FALSE,
                         result |-> IF status = "running"
                                    THEN [success |-> TRUE, alreadyRunning |-> FALSE,
                                          pid |-> OsPid(1), error |-> FALSE]
                                    ELSE NoResult]
                   ELSE IdleCall]
    /\ procs = [p \in Calls |->
                   IF p = 1
                   THEN [NoProc EXCEPT !.room = "r1", !.st = "spawned",
                                       !.pid = OsPid(1),
                                       !.mayError = (status # "error"),
                                       !.streamsOpen = TRUE]
                   ELSE NoProc]
    /\ lastStop = NoStop
    /\ now = 0
    /\ orchestrator = "up"
    /\ request = NoRequest
    /\ conversation = NoConversation

InitPresence ==
    /\ queries = [q \in Queries |-> IdleQuery]
    /\ \/ /\ agentProcesses = EmptyMap
          /\ calls = [c \in Calls |-> IdleCall]
          /\ procs = [p \in Calls |-> NoProc]
          /\ lastStop = NoStop
          /\ now = 0
          /\ orchestrator = "up"
          /\ request = NoRequest
          /\ conversation = NoConversation
       \/ \E status \in {"starting", "running", "error"} : LaunchedOnce(status)

NextPresence ==
    \/ \E q \in Queries, r \in Rooms : QueryBegin(q, r)
    \/ \E q \in Queries, g \in GetRoomOutcomes, cl \in ClientOutcomes,
          rnd \in RandomOutcomes : QueryRoomAnswered(q, g, cl, rnd)
    \/ \E q \in Queries, l \in ListOutcomes, rnd \in RandomOutcomes :
           QueryListAnswered(q, l, rnd)

SpecPresence == InitPresence /\ [][NextPresence]_vars

-----------------------------------------------------------------------------
(* The specification of the launcher *)

Init ==
    /\ agentProcesses = EmptyMap
    /\ procs = [p \in Calls |-> NoProc]
    /\ calls = [c \in Calls |-> IdleCall]
    /\ lastStop = NoStop
    /\ now = 0
    /\ orchestrator = "up"
    /\ request = NoRequest
    /\ conversation = NoConversation
    /\ queries = [q \in Queries |-> IdleQuery]

Next ==
    \/ \E c \in Calls, r \in Rooms : StartAgentBegin(c, r)
    \/ \E c \in Calls, g \in GetRoomOutcomes, w \in WriteOutcomes, s \in SpawnOutcomes :
           RoomFound(c, g, w, s)
    \/ \E c \in Calls, g \in GetRoomOutcomes : RoomMissing(c, g)
    \/ \E c \in Calls, o \in CreateRoomOutcomes, w \in WriteOutcomes, s \in SpawnOutcomes :
           CreateRoomReturns(c, o, w, s)
    \/ \E c \in Calls : GraceExpires(c)
    \/ \E p \in Calls : ErrorEvent(p)
    \/ \E p \in Calls, x \in ExitReasons : ExitEvent(p, x)
    \/ \E r \in Rooms, k \in KillOutcomes : StopAgent(r, k)

Spec == Init /\ [][Next]_vars

\* The launcher with the answers of the external service kept as history
NextRecorded ==
    \/ \E c \in Calls, r \in Rooms : StartAgentBegin(c, r)
    \/ \E c \in Calls, g \in GetRoomOutcomes, w \in WriteOutcomes, s \in SpawnOutcomes :
           RoomFoundOn(c, g, w, s, TRUE)
    \/ \E c \in Calls, g \in GetRoomOutcomes : RoomMissing(c, g)
    \/ \E c \in Calls, o \in CreateRoomOutcomes, w \in WriteOutcomes, s \in SpawnOutcomes :
           CreateRoomReturnsOn(c, o, w, s, TRUE)
    \/ \E c \in Calls : GraceExpires(c)
    \/ \E p \in Calls : ErrorEvent(p)
    \/ \E p \in Calls, x \in ExitReasons : ExitEvent(p, x)
    \/ \E r \in Rooms, k \in KillOutcomes : StopAgent(r, k)

SpecRecorded == Init /\ [][NextRecorded]_vars

-----------------------------------------------------------------------------
(* The launcher and the end of its own process.  The children are spawned   *)
(* with detached: true and with the default stdio (439-446): their standard *)
(* output and error are pipes whose reading ends are held by this process   *)
(* (459-460).                                                               *)

\* the process that runs this module ends (it is killed, it crashes, it is
\* restarted); the reading ends of the children's pipes close with it
OrchestratorExits ==
    /\ orchestrator = "up"
    /\ orchestrator' = "exited"
    /\ UNCHANGED <<agentProcesses, calls, procs, lastStop, now, queries, otherVars>>

\* the generated script, 300-302 and 366-369: the child writes to its
\* standard output, the write to the closed pipe fails, the failure is an
\* uncaught exception and the script's handler for it calls process.exit(1)
ChildWritesToClosedPipe(p) ==
    /\ orchestrator = "exited"
    /\ procs[p].st \in Alive
    /\ procs' = [procs EXCEPT ![p].st = "pipeClosed", ![p].mayError = FALSE]
    /\ UNCHANGED <<agentProcesses, calls, lastStop, now, queries, orchestrator, otherVars>>

NextDetached ==
    \/ orchestrator = "up" /\ Next
    \/ OrchestratorExits
    \/ \E p \in Calls : ChildWritesToClosedPipe(p)

SpecDetached == Init /\ [][NextDetached]_vars

\* 493: a timer that was set fires, whatever happens to the child meanwhile
SpecLive == Spec /\ \A c \in Calls : WF_vars(GraceExpires(c))

-----------------------------------------------------------------------------
(* The launcher with its clock.  Time is what new Date() reads, in          *)
(* milliseconds; it advances between the steps of the event loop.           *)

\* 493: setTimeout(resolve, 1000)
GracePeriodMs == 1000

\* the clock advances by half a grace period
Tick ==
    /\ now < MaxTicks * (GracePeriodMs \div 2)
    /\ now' = now + (GracePeriodMs \div 2)
    /\ UNCHANGED <<agentProcesses, calls, procs, lastStop, queries, orchestrator, otherVars>>

\* 493-507: the timer set when launch c was registered has fired
GraceExpiresTimed(c) ==
    /\ now - procs[c].stamp >= GracePeriodMs
    /\ GraceExpires(c)

NextTimed ==
    \/ Tick
    \/ \E c \in Calls, r \in Rooms : StartAgentBegin(c, r)
    \/ \E c \in Calls, g \in GetRoomOutcomes, w \in WriteOutcomes, s \in SpawnOutcomes :
           RoomFound(c, g, w, s)
    \/ \E c \in Calls, g \in GetRoomOutcomes : RoomMissing(c, g)
    \/ \E c \in Calls, o \in CreateRoomOutcomes, w \in WriteOutcomes, s \in SpawnOutcomes :
           CreateRoomReturns(c, o, w, s)
    \/ \E c \in Calls : GraceExpiresTimed(c)
    \/ \E p \in Calls : ErrorEvent(p)
    \/ \E p \in Calls, x \in ExitReasons : ExitEvent(p, x)
    \/ \E r \in Rooms, k \in KillOutcomes : StopAgent(r, k)

SpecTimed == Init /\ [][NextTimed]_vars

-----------------------------------------------------------------------------
(* middleware.ts.  A pathname and a header value are sequences of pieces of *)
(* text; startsWith and includes are those of String.prototype.             *)

\* "/api/livekit-token"
TokenRoute == <<"/api", "/livekit-token">>

Pathnames ==
    { TokenRoute,
      TokenRoute \o <<"/refresh">>,
      <<"/api", "/rooms">>,
      <<"/">> }

Header(value) == [present |-> TRUE, value |-> value]

Hosts == { NoHeader, Header(<<"a.example">>), Header(<<"b.example">>) }

Origins ==
    { NoHeader,
      Header(<<"https://", "a.example">>),
      Header(<<"http://", "a.example">>),
      Header(<<"https://", "b.example">>),
      Header(<<"https://", "a.example", ".evil.org">>) }

Requests ==
    [pathname : Pathnames, origin : Origins, host : Hosts, response : {"none"}]

\* a header value in a condition: null and "" are falsy
Truthy(header) == header.present /\ header.value # <<>>

\* middleware.ts 4-18
middleware(req) ==
    IF /\ StartsWith(req.pathname, TokenRoute)
       /\ Truthy(req.origin)
       /\ Truthy(req.host)
       /\ ~Includes(req.origin.value, req.host.value)
    THEN "401"
    ELSE "next"

\* 20-22: config.matcher, the paths the framework runs the middleware for
MatcherMatches(pathname) == pathname = TokenRoute

\* the framework hands the request to the middleware
MiddlewareRuns ==
    /\ request.response = "none"
    /\ MatcherMatches(request.pathname)
    /\ request' = [request EXCEPT !.response = middleware(request)]
    /\ UNCHANGED <<agentProcesses, calls, procs, lastStop, now, queries,
                   orchestrator, conversation>>

\* the framework does not run the middleware: the request goes on
MiddlewareSkipped ==
    /\ request.response = "none"
    /\ ~MatcherMatches(request.pathname)
    /\ request' = [request EXCEPT !.response = "next"]
    /\ UNCHANGED <<agentProcesses, calls, procs, lastStop, now, queries,
                   orchestrator, conversation>>

\* the agent service before any call
AgentServiceIdle ==
    /\ agentProcesses = EmptyMap
    /\ procs = [p \in Calls |-> NoProc]
    /\ calls = [c \in Calls |-> IdleCall]
    /\ lastStop = NoStop
    /\ now = 0
    /\ queries = [q \in Queries |-> IdleQuery]
    /\ orchestrator = "up"

InitMiddleware ==
    /\ AgentServiceIdle
    /\ conversation = NoConversation
    /\ request \in Requests

NextMiddleware == MiddlewareRuns \/ MiddlewareSkipped

SpecMiddleware == InitMiddleware /\ [][NextMiddleware]_vars

-----------------------------------------------------------------------------
(* use-conversation-context.tsx: the hook's message history *)

\* the size given to the hook is one of 0..MaxContextSize
MaxContextSize == 2

\* the history followed: at most this many messages supplied in a row
MaxSupplied == 3

Messages == [role : {"user", "assistant"}, content : {"c1", "c2"}]

MessageLists == SeqsUpTo(Messages, MaxSupplied)

\* Array.prototype.slice(start): a negative start counts from the end, and
\* -0 is 0
Slice(arr, start) ==
    LET len == Len(arr)
        k == IF start < 0
             THEN (IF len + start > 0 THEN len + start ELSE 0)
             ELSE (IF start < len THEN start ELSE len)
    IN SubSeq(arr, k + 1, len)

\* 20-22
addMessage(message) ==
    /\ Len(conversation.supplied) < MaxSupplied
    /\ conversation' =
           [conversation EXCEPT
               !.messages = Slice(Append(conversation.messages, message),
                                  0 - conversation.maxContextSize),
               !.supplied = Append(conversation.supplied, message)]
    /\ UNCHANGED <<agentProcesses, calls, procs, lastStop, now, queries,
                   orchestrator, request>>

\* 25-27
updateMessages(messages) ==
    /\ conversation' =
           [conversation EXCEPT
               !.messages = Slice(messages, 0 - conversation.maxContextSize),
               !.supplied = messages]
    /\ UNCHANGED <<agentProcesses, calls, procs, lastStop, now, queries,
                   orchestrator, request>>

\* 30-32
clearMessages ==
    /\ conversation' = [conversation EXCEPT !.messages = <<>>, !.supplied = <<>>]
    /\ UNCHANGED <<agentProcesses, calls, procs, lastStop, now, queries,
                   orchestrator, request>>

\* 69-75: recentMessages, a copy of messagesRef.current
getContext == conversation.messages

InitConversation ==
    /\ AgentServiceIdle
    /\ request = NoRequest
    /\ \E size \in 0..MaxContextSize :
           conversation = [NoConversation EXCEPT !.maxContextSize = size]

NextConversation ==
    \/ \E m \in Messages : addMessage(m)
    \/ \E l \in MessageLists : updateMessages(l)
    \/ clearMessages

SpecConversation == InitConversation /\ [][NextConversation]_vars

-----------------------------------------------------------------------------
(* The claims *)

\* the child of launch p runs: spawned, 'exit' not handled, no SIGTERM sent
Active(p) == procs[p].st = "spawned" /\ procs[p].pid # Undefined

\* the step is the start of call c for room r
BeginStep(c, r) == calls[c].pc = "idle" /\ calls'[c].pc # "idle" /\ calls'[c].room = r

\* C1: two startAgent calls in quick succession for one unregistered room
\* (the second begins before the first has registered its record) make one
\* spawned process, and the second call returns alreadyRunning = true.
C1_IdempotentStart ==
    \A c1, c2 \in Calls :
        (c1 < c2 /\ calls[c2].raced /\ calls[c1].room = calls[c2].room /\ Active(c1))
            => /\ procs[c2].st = "none"
               /\ calls[c2].pc = "done" => calls[c2].result.alreadyRunning

\* C2: in every reachable state every room has at most one active launched
\* process.
C2_AtMostOneActivePerRoom ==
    \A r \in Rooms : Cardinality({p \in Calls : Active(p) /\ procs[p].room = r}) <= 1

\* C3: startAgent for a room whose record is starting or running returns
\* success with alreadyRunning and the tracked pid, spawns nothing, writes
\* nothing, and leaves the registry unchanged.
C3_AlreadyRunningNoEffect ==
    [][\A c \in Calls, r \in Rooms :
          (/\ BeginStep(c, r)
           /\ MapHas(agentProcesses, r)
           /\ agentProcesses[r].status \in {"starting", "running"})
              => /\ calls'[c].pc = "done"
                 /\ calls'[c].result = [success |-> TRUE, alreadyRunning |-> TRUE,
                                        pid |-> agentProcesses[r].pid, error |-> FALSE]
                 /\ agentProcesses' = agentProcesses
                 /\ procs' = procs]_vars

C3_Witness ==
    \E c \in Calls : calls[c].pc = "done" /\ calls[c].result.alreadyRunning

\* C4: once the exit event of a room's process has been handled, whatever
\* the code or signal, isAgentRunning(room) is false, and a startAgent that
\* begins in the state the exit leaves is not answered alreadyRunning: it goes
\* on to launch.
C4_CleanSlateAfterExit ==
    [][/\ \A p \in Calls :
              (procs[p].st \in Alive /\ procs'[p].st = "exited")
                  => ~isAgentRunning(procs[p].room)'
       /\ \A c \in Calls, r \in Rooms :
              (BeginStep(c, r) /\ BeginsAfterExit(r))
                  => /\ calls'[c].pc = "roomExists"
                     /\ ~calls'[c].result.alreadyRunning]_vars

C4_Witness ==
    \E c \in Calls : calls[c].afterExit /\ procs[c].st = "spawned"

\* C5: when the child's error event fires during the grace period, the
\* startAgent call returns success = false and the record of that launch is
\* not set to running.
C5_SpawnErrorFailsStart ==
    [][\A c \in Calls :
          (/\ calls[c].pc = "grace" /\ calls'[c].pc = "done"
           /\ procs[c].st \in Alive /\ ~procs[c].mayError)
              => /\ ~calls'[c].result.success
                 /\ ~(/\ MapHas(agentProcesses', calls[c].room)
                      /\ agentProcesses'[calls[c].room].process = c
                      /\ agentProcesses'[calls[c].room].status = "running")]_vars

\* the external query of the presence check q failed
QueryFailed(q) ==
    \/ queries[q].getRoom = "failed"
    \/ queries[q].client = "configMissing"
    \/ queries[q].list.failed

\* C6: the presence getFullAgentStatus reports when the external query failed
\* differs from the one it reports when the query succeeded and found no
\* agent.
C6_FailureDistinctFromAbsent ==
    \A q1, q2 \in Queries :
        (/\ queries[q1].pc = "done" /\ queries[q2].pc = "done"
         /\ QueryFailed(q1)
         /\ ~QueryFailed(q2) /\ ~FullStatus(q2).agentInRoom)
            => FullStatus(q1).agentInRoom # FullStatus(q2).agentInRoom

\* C7: two presence checks of one room that get the same answers from the
\* external service return the same result.
C7_PresenceDeterministic ==
    \A q1, q2 \in Queries :
        (/\ queries[q1].pc = "done" /\ queries[q2].pc = "done"
         /\ queries[q1].room = queries[q2].room
         /\ queries[q1].getRoom = queries[q2].getRoom
         /\ queries[q1].client = queries[q2].client
         /\ queries[q1].list = queries[q2].list)
            => queries[q1].agentInRoom = queries[q2].agentInRoom

\* C8: stopAgent for a room with no record returns false, signals no process
\* and leaves the registry unchanged.
C8_StopUntrackedRoom ==
    [][\A r \in Rooms :
          (lastStop' # lastStop /\ lastStop'.room = r /\ ~MapHas(agentProcesses, r))
              => /\ lastStop'.returned = "false"
                 /\ procs' = procs
                 /\ agentProcesses' = agentProcesses]_vars

C8_Witness ==
    /\ lastStop.kill = "none"
    /\ lastStop.returned = "false"
    /\ agentProcesses # EmptyMap

\* C9: when stopAgent delivers the signal to the room's process, the record
\* is removed in the same call, before the exit event is handled, the call
\* returns true and isAgentRunning(room) is false.
C9_StopRemovesRecord ==
    [][\A p \in Calls :
          (procs[p].st = "spawned" /\ procs'[p].st = "signalled")
              => /\ MapHas(agentProcesses, procs[p].room)
                 /\ ~MapHas(agentProcesses', procs[p].room)
                 /\ lastStop' = [room |-> procs[p].room, kill |-> "delivered",
                                 returned |-> "true"]
                 /\ ~isAgentRunning(procs[p].room)']_vars

C9_Witness ==
    \E p \in Calls : /\ procs[p].st = "signalled"
                     /\ lastStop = [room |-> procs[p].room, kill |-> "delivered",
                                    returned |-> "true"]
                     /\ ~MapHas(agentProcesses, procs[p].room)

SameRecord(r) ==
    /\ MapHas(agentProcesses, r)
    /\ MapHas(agentProcesses', r)
    /\ agentProcesses'[r].process = agentProcesses[r].process

\* C11: a record that is still starting when the grace period of its launch
\* ends is promoted to running by that check, and no record goes from
\* starting to running a second time (a running record is never starting
\* again).
C11_PromotedExactlyOnce ==
    [][/\ \A c \in Calls :
              (/\ calls[c].pc = "grace" /\ calls'[c].pc = "done"
               /\ MapHas(agentProcesses, calls[c].room)
               /\ agentProcesses[calls[c].room].process = c
               /\ agentProcesses[calls[c].room].status = "starting")
                  => /\ SameRecord(calls[c].room)
                     /\ agentProcesses'[calls[c].room].status = "running"
       /\ \A r \in Rooms :
              (SameRecord(r) /\ agentProcesses[r].status = "running")
                  => agentProcesses'[r].status # "starting"]_vars

C11_Witness ==
    \E c \in Calls : /\ calls[c].pc = "done"
                     /\ calls[c].result.success
                     /\ ~calls[c].result.alreadyRunning
                     /\ MapHas(agentProcesses, calls[c].room)
                     /\ agentProcesses[calls[c].room].process = c
                     /\ agentProcesses[calls[c].room].status = "running"

\* C12 as stated: a record changes status only from starting to running or
\* from starting to error; a record in error or in running keeps its status.
C12_OnlyFromStarting ==
    [][\A r \in Rooms :
          (SameRecord(r) /\ agentProcesses'[r].status # agentProcesses[r].status)
              => /\ agentProcesses[r].status = "starting"
                 /\ agentProcesses'[r].status \in {"running", "error"}]_vars

\* C12 as amended: the status changes of a record are starting to running,
\* starting to error and running to error; a record in error is never
\* promoted and a record in running never goes back to starting.
C12_StatusChanges ==
    [][\A r \in Rooms :
          (SameRecord(r) /\ agentProcesses'[r].status # agentProcesses[r].status)
              => <<agentProcesses[r].status, agentProcesses'[r].status>> \in
                     {<<"starting", "running">>, <<"starting", "error">>,
                      <<"running", "error">>}]_vars

\* a record in error whose launch has gone through its grace-period check
C12_Witness ==
    \E c \in Calls : /\ calls[c].pc = "done"
                     /\ calls[c].result.success
                     /\ ~calls[c].result.alreadyRunning
                     /\ MapHas(agentProcesses, calls[c].room)
                     /\ agentProcesses[calls[c].room].process = c
                     /\ agentProcesses[calls[c].room].status = "error"

\* the step is the 'error' event of the child of launch p
ErrorStep(p) ==
    /\ procs[p].mayError
    /\ ~procs'[p].mayError
    /\ procs'[p].st = procs[p].st

\* the error handler's effect on the record of the room of launch p
ErrorRecorded ==
    \A p \in Calls :
        (ErrorStep(p) /\ MapHas(agentProcesses, procs[p].room))
            => /\ SameRecord(procs[p].room)
               /\ getAgentStatus(procs[p].room)'.status = "error"
               /\ getAgentStatus(procs[p].room)'.error = ErrorMessage(p)
               /\ ~getAgentStatus(procs[p].room)'.running

\* no startAgent for room r other than the launch of its record has begun,
\* and none begins in the step
NotStartedAgain(r) ==
    \A c \in Calls :
        /\ calls[c].room = r => c = agentProcesses[r].process
        /\ calls'[c].room = r => c = agentProcesses[r].process

\* C13 as stated: the error event marks the room's record error with its
\* message, and from then on the status query of the room reports error,
\* that message and running = false until the room is started again.
C13_ErrorShownUntilRestart ==
    [][/\ ErrorRecorded
       /\ \A r \in Rooms :
              (/\ MapHas(agentProcesses, r)
               /\ agentProcesses[r].status = "error"
               /\ NotStartedAgain(r))
                  => /\ getAgentStatus(r)'.status = "error"
                     /\ getAgentStatus(r)'.error = getAgentStatus(r).error
                     /\ ~getAgentStatus(r)'.running]_vars

\* C13 as amended: the error event marks the room's record error with its
\* message, and the status query reports error, the message of the latest
\* error event and running = false for as long as that record stays in the
\* registry; it leaves the registry by the exit event of a child of the room
\* or a stopAgent whose signal was delivered, or is replaced by a new launch.
C13_ErrorShownWhileRecorded ==
    [][/\ ErrorRecorded
       /\ \A r \in Rooms :
              (MapHas(agentProcesses, r) /\ agentProcesses[r].status = "error")
                  => \/ /\ ~MapHas(agentProcesses', r)
                        /\ \E p \in Calls :
                              /\ procs[p].room = r
                              /\ procs[p].st \in Alive
                              /\ procs'[p].st # procs[p].st
                     \/ /\ MapHas(agentProcesses', r)
                        /\ agentProcesses'[r].process # agentProcesses[r].process
                        /\ calls[agentProcesses'[r].process].pc # "grace"
                        /\ calls'[agentProcesses'[r].process].pc = "grace"
                     \/ /\ SameRecord(r)
                        /\ getAgentStatus(r)'.status = "error"
                        /\ ~getAgentStatus(r)'.running
                        /\ \/ getAgentStatus(r)'.error = getAgentStatus(r).error
                           \/ \E p \in Calls :
                                 /\ ErrorStep(p)
                                 /\ procs[p].room = r
                                 /\ getAgentStatus(r)'.error = ErrorMessage(p)]_vars

\* the query of a room reports the error of the launch of its record
C13_Witness ==
    \E r \in Rooms :
        /\ MapHas(agentProcesses, r)
        /\ ~procs[agentProcesses[r].process].mayError
        /\ getAgentStatus(r).status = "error"
        /\ getAgentStatus(r).error = ErrorMessage(agentProcesses[r].process)
        /\ ~getAgentStatus(r).running

\* C14: a startAgent that fails before it reaches the spawn (the room cannot
\* be created, the configuration is missing, the script cannot be written)
\* returns success = false with an error message, starts no launch and
\* leaves the registry as it was.
C14_FailureBeforeSpawn ==
    [][\A c \in Calls :
          (/\ calls[c].pc \in {"roomExists", "createRoom"}
           /\ calls'[c].pc = "done"
           /\ procs'[c].st = "none")
              => /\ ~calls'[c].result.success
                 /\ calls'[c].result.error
                 /\ calls'[c].result.pid = Undefined
                 /\ procs' = procs
                 /\ agentProcesses' = agentProcesses]_vars

\* a call ended by a failure before the spawn, next to a room with a record
C14_Witness ==
    \E c \in Calls :
        /\ calls[c].pc = "done"
        /\ ~calls[c].result.success
        /\ calls[c].result.error
        /\ procs[c].st = "none"
        /\ \E r \in Rooms : MapHas(agentProcesses, r)

\* C15: isAgentRunning(room) is true exactly when the room has a record that
\* is starting or running, and getAgentStatus(room).running equals it.
C15_RunningIffRecordNotError ==
    \A r \in Rooms :
        /\ isAgentRunning(r) <=>
               (/\ MapHas(agentProcesses, r)
                /\ agentProcesses[r].status \in {"starting", "running"})
        /\ MapHas(agentProcesses, r) =>
               agentProcesses[r].status \in {"starting", "running", "error"}
        /\ getAgentStatus(r).running = isAgentRunning(r)

\* the three cases at once: a record starting or running, and a record in error
C15_Witness ==
    \E r1, r2 \in Rooms :
        /\ isAgentRunning(r1)
        /\ agentProcesses[r1].status = "starting"
        /\ MapHas(agentProcesses, r2)
        /\ ~isAgentRunning(r2)

\* C16: getAgentStatus(room) is { running: false } with nothing else exactly
\* when the room has no record; with a record it reports the record's pid
\* and status and an uptime.
C16_StatusOfRecord ==
    \A r \in Rooms :
        /\ (getAgentStatus(r) = NotRunningStatus) <=> ~MapHas(agentProcesses, r)
        /\ MapHas(agentProcesses, r) =>
               /\ getAgentStatus(r).pid = agentProcesses[r].pid
               /\ getAgentStatus(r).status = agentProcesses[r].status
               /\ getAgentStatus(r).uptime = Uptime(agentProcesses[r].startTime)
               /\ getAgentStatus(r).uptime # Undefined

\* a room whose child has exited and left no record, and a record in error
C16_Witness ==
    /\ \E p \in Calls : /\ procs[p].st = "exited"
                        /\ getAgentStatus(procs[p].room) = NotRunningStatus
    /\ \E r \in Rooms : /\ MapHas(agentProcesses, r)
                        /\ agentProcesses[r].status = "error"
                        /\ getAgentStatus(r).pid = agentProcesses[r].pid

\* what checkAgentInRoom answers from the responses the query q received,
\* when none of them was a failure
PresenceFromResponses(q) ==
    /\ roomExists(queries[q].getRoom)
    /\ queries[q].client = "ready"
    /\ AgentAmong(queries[q].list.participants)

\* C17: getFullAgentStatus reports the local status as the registry gives it
\* and the presence as checkAgentInRoom gives it, each whatever the other is.
C17_BothReportedVerbatim ==
    \A q \in Queries :
        queries[q].pc = "done" =>
            /\ FullStatus(q).localProcessRunning = getAgentStatus(queries[q].room).running
            /\ FullStatus(q).localProcessRunning = isAgentRunning(queries[q].room)
            /\ FullStatus(q).pid = getAgentStatus(queries[q].room).pid
            /\ FullStatus(q).status = getAgentStatus(queries[q].room).status
            /\ FullStatus(q).error = getAgentStatus(queries[q].room).error
            /\ FullStatus(q).uptime = getAgentStatus(queries[q].room).uptime
            /\ ~QueryFailed(q) => FullStatus(q).agentInRoom = PresenceFromResponses(q)
            /\ QueryFailed(q) => FullStatus(q).agentInRoom = queries[q].agentInRoom

\* the two reports in which the observations disagree: a local process and
\* no agent in the room, an agent in the room and no local process
C17_Witness ==
    \E q1, q2 \in Queries :
        /\ queries[q1].pc = "done" /\ ~QueryFailed(q1)
        /\ queries[q2].pc = "done" /\ ~QueryFailed(q2)
        /\ FullStatus(q1).localProcessRunning /\ ~FullStatus(q1).agentInRoom
        /\ ~FullStatus(q2).localProcessRunning /\ FullStatus(q2).agentInRoom

\* the two reports in which the observations agree
C17_Agreeing ==
    \E q1, q2 \in Queries :
        /\ queries[q1].pc = "done" /\ ~QueryFailed(q1)
        /\ queries[q2].pc = "done" /\ ~QueryFailed(q2)
        /\ FullStatus(q1).localProcessRunning /\ FullStatus(q1).agentInRoom
        /\ ~FullStatus(q2).localProcessRunning /\ ~FullStatus(q2).agentInRoom

\* C18: while the child of the room's record stays alive, the uptime the
\* status query reports for the room is never negative and never goes down
\* from one step to the next, whatever start or stop happens in between.
C18_UptimeNeverDecreases ==
    [][\A r \in Rooms :
          (/\ MapHas(agentProcesses, r)
           /\ MapHas(agentProcesses', r)
           /\ Active(agentProcesses[r].process)
           /\ procs'[agentProcesses[r].process].st = "spawned")
              => /\ getAgentStatus(r).uptime >= 0
                 /\ getAgentStatus(r)'.uptime >= getAgentStatus(r).uptime]_vars

\* the step changes what the registry holds for room r
RecordChanges(r) ==
    \/ MapHas(agentProcesses, r) # MapHas(agentProcesses', r)
    \/ /\ MapHas(agentProcesses, r)
       /\ MapHas(agentProcesses', r)
       /\ agentProcesses'[r] # agentProcesses[r]

\* the step is a step of a startAgent for room r, an event of a child
\* launched for room r, or a stopAgent that signalled such a child
StepOfRoom(r) ==
    \/ \E c \in Calls : calls'[c] # calls[c] /\ calls'[c].room = r
    \/ \E p \in Calls : procs'[p] # procs[p] /\ procs'[p].room = r

\* C19: a step changes the record of a room only if it is a step of that
\* room (its startAgent, its stopAgent, an error or exit event of one of its
\* children, its grace-period check), and changes no other room's record.
C19_OtherRoomsUntouched ==
    [][/\ \A r \in Rooms : RecordChanges(r) => StepOfRoom(r)
       /\ \A rA, rB \in Rooms :
              (RecordChanges(rA) /\ RecordChanges(rB)) => rA = rB
       /\ \A rA, rB \in Rooms :
              (StepOfRoom(rA) /\ rA # rB) => ~RecordChanges(rB)]_vars

\* events of one room have acted (an error, an exit) and another room's
\* record is there
C19_Witness ==
    \E p \in Calls, r \in Rooms :
        /\ procs[p].st = "exited"
        /\ r # procs[p].room
        /\ MapHas(agentProcesses, r)
        /\ agentProcesses[r].status = "running"

\* C20: the log streams of a launch that has ended (its child exited, or
\* the spawn threw after the streams were opened) are closed.
C20_StreamsClosedWhenEnded ==
    \A p \in Calls :
        procs[p].st \in {"threw", "exited"} => ~procs[p].streamsOpen

\* C21: a startAgent that has issued its spawn and waits for the grace
\* period always comes to return its result, whether or not stopAgent, an
\* exit or an error of the child happens during the wait.
C21_WaitAlwaysCompletes ==
    \A c \in Calls :
        (calls[c].pc = "grace") ~> (calls[c].pc = "done" /\ calls[c].result.success)

\* a launch that returned after its child had been stopped and had exited
C21_Witness ==
    \E c \in Calls :
        /\ calls[c].pc = "done"
        /\ calls[c].result.success
        /\ ~calls[c].result.alreadyRunning
        /\ procs[c].st = "exited"
        /\ lastStop.room = calls[c].room
        /\ lastStop.returned = "true"

\* the launch p has opened its log streams: its script was written and its
\* log paths were made
PathsMade(p) == procs[p].st # "none"

\* C22: two distinct launches for one room have different script paths,
\* different standard-output log paths and different standard-error log
\* paths.
C22_PathsNeverCollide ==
    \A p1, p2 \in Calls :
        (/\ p1 # p2
         /\ PathsMade(p1) /\ PathsMade(p2)
         /\ procs[p1].room = procs[p2].room)
            => /\ ScriptPath(p1) # ScriptPath(p2)
               /\ LogPath(p1) # LogPath(p2)
               /\ ErrorLogPath(p1) # ErrorLogPath(p2)

\* C23: a record carries an error message exactly when its status is error.
C23_ErrorDetailIffError ==
    \A r \in Rooms :
        MapHas(agentProcesses, r) =>
            ((agentProcesses[r].error # NoError) <=> (agentProcesses[r].status = "error"))

\* a record in error with its message next to a record without one
C23_Witness ==
    \E r1, r2 \in Rooms :
        /\ MapHas(agentProcesses, r1) /\ MapHas(agentProcesses, r2)
        /\ agentProcesses[r1].status = "error"
        /\ agentProcesses[r1].error # NoError
        /\ agentProcesses[r2].status = "running"
        /\ agentProcesses[r2].error = NoError

\* C25: startAgent and stopAgent end with a value, never with an exception:
\* stopAgent returns true or false, startAgent a result with success = true
\* or with an error message, whichever of the external steps failed.
C25_AlwaysAResult ==
    /\ lastStop.returned \in {"none", "true", "false"}
    /\ \A c \in Calls :
           calls[c].pc = "done" =>
               /\ calls[c].result \in
                      [success : BOOLEAN, alreadyRunning : BOOLEAN,
                       pid : {Undefined, 0} \cup {OsPid(p) : p \in Calls},
                       error : BOOLEAN]
               /\ calls[c].result.success # calls[c].result.error

\* a stopAgent whose kill threw next to a startAgent whose spawn threw
C25_Witness ==
    /\ lastStop.kill = "throws"
    /\ lastStop.returned = "false"
    /\ \E c \in Calls : /\ calls[c].pc = "done"
                        /\ procs[c].st = "threw"
                        /\ calls[c].result = FailedResult

\* the step spawns the child of launch p
SpawnStep(p) == procs[p].st = "none" /\ procs'[p].st = "spawned"

\* C27: the step that spawns a child is the step that registers its
\* starting record, with the child's pid and the time of the spawn.
C27_SpawnRegistersAtOnce ==
    [][\A p \in Calls :
          SpawnStep(p) =>
              /\ MapHas(agentProcesses', procs'[p].room)
              /\ agentProcesses'[procs'[p].room].process = p
              /\ agentProcesses'[procs'[p].room].status = "starting"
              /\ agentProcesses'[procs'[p].room].pid =
                     (IF procs'[p].pid = Undefined THEN 0 ELSE procs'[p].pid)
              /\ agentProcesses'[procs'[p].room].startTime = now']_vars

\* a spawned child whose starting record is the room's record, in the wait
C27_Witness ==
    \E p \in Calls :
        /\ procs[p].st = "spawned"
        /\ procs[p].pid # Undefined
        /\ calls[p].pc = "grace"
        /\ MapHas(agentProcesses, procs[p].room)
        /\ agentProcesses[procs[p].room].process = p
        /\ agentProcesses[procs[p].room].status = "starting"
        /\ agentProcesses[procs[p].room].pid = procs[p].pid

\* C24: a step of a status or presence query (getAgentStatus read by
\* getFullAgentStatus, checkAgentInRoom) leaves the registry and the
\* launches as they were.
C24_QueriesOnlyRead ==
    [][queries' # queries =>
          /\ agentProcesses' = agentProcesses
          /\ procs' = procs
          /\ calls' = calls]_vars

\* a finished query of a room whose record is in error: the record is there
C24_Witness ==
    \E q \in Queries :
        /\ queries[q].pc = "done"
        /\ queries[q].localStatus.status = "error"
        /\ MapHas(agentProcesses, queries[q].room)
        /\ agentProcesses[queries[q].room].status = "error"

\* C28: a startAgent for a room whose record is in error is not answered
\* alreadyRunning but goes on to the launch, and the step that spawns its
\* child replaces the record in error by a starting record of the new
\* child: its pid, the time of the spawn, no error message.
C28_ErrorRecordIsRelaunched ==
    [][\A c \in Calls :
          /\ \A r \in Rooms :
                 (/\ BeginStep(c, r)
                  /\ MapHas(agentProcesses, r)
                  /\ agentProcesses[r].status = "error")
                     => /\ calls'[c].pc = "roomExists"
                        /\ agentProcesses' = agentProcesses
          /\ (/\ SpawnStep(c)
              /\ MapHas(agentProcesses, procs'[c].room)
              /\ agentProcesses[procs'[c].room].status = "error")
                 => /\ agentProcesses'[procs'[c].room].process = c
                    /\ agentProcesses'[procs'[c].room].process #
                           agentProcesses[procs'[c].room].process
                    /\ agentProcesses'[procs'[c].room].status = "starting"
                    /\ agentProcesses'[procs'[c].room].error = NoError
                    /\ agentProcesses'[procs'[c].room].pid =
                           (IF procs'[c].pid = Undefined THEN 0 ELSE procs'[c].pid)
                    /\ agentProcesses'[procs'[c].room].startTime = now'
                    /\ agentProcesses'[procs'[c].room].startTime >=
                           agentProcesses[procs'[c].room].startTime]_vars

\* the record of a launch that began when the room's record was in error:
\* the earlier child has reported its error and was neither stopped nor has
\* exited, and the new record is starting at a later time
C28_Witness ==
    \E c, p \in Calls :
        /\ p < c
        /\ procs[p].room = procs[c].room
        /\ procs[p].st = "spawned" /\ ~procs[p].mayError
        /\ ~calls[c].raced
        /\ procs[c].st = "spawned"
        /\ MapHas(agentProcesses, procs[c].room)
        /\ agentProcesses[procs[c].room].process = c
        /\ agentProcesses[procs[c].room].status = "starting"
        /\ agentProcesses[procs[c].room].error = NoError
        /\ agentProcesses[procs[c].room].startTime > procs[p].stamp

\* C30: when the room is not known to the external service, checkAgentInRoom
\* returns false at once: it asks for no client and lists no participants.
C30_UnknownRoomIsFalse ==
    [][\A q \in Queries :
          (/\ queries[q].pc = "roomExists"
           /\ queries'[q].pc # "roomExists"
           /\ queries'[q].getRoom # "found")
              => /\ queries'[q].pc = "done"
                 /\ queries'[q].agentInRoom = FALSE
                 /\ queries'[q].client = "none"
                 /\ queries'[q].list = NoList]_vars

\* a finished check of a room the service does not have, next to a check
\* that listed the participants of a room it has
C30_Witness ==
    \E q1, q2 \in Queries :
        /\ queries[q1].pc = "done"
        /\ queries[q1].getRoom = "notFound"
        /\ ~FullStatus(q1).agentInRoom
        /\ queries[q1].list = NoList
        /\ queries[q2].pc = "done"
        /\ queries[q2].getRoom = "found"
        /\ Len(queries[q2].list.participants) > 0

\* the step of call c reaches the spawn: its streams are open and spawn has
\* been called (it returned a child, or threw)
SpawnCalled(c) == procs[c].st = "none" /\ procs'[c].st # "none"

\* C29: startAgent calls spawn only in the step in which the lookup of the
\* room answered that it exists, or in which createRoom answered that it
\* created the room.
C29_SpawnOnlyForKnownRoom ==
    [][\A c \in Calls :
          SpawnCalled(c) =>
              \/ /\ calls[c].pc = "roomExists"
                 /\ procs'[c].roomAnswer = "found"
              \/ /\ calls[c].pc = "createRoom"
                 /\ procs'[c].roomAnswer = "created"]_vars

\* a child spawned on a room that was found, another on a room just created
C29_Witness ==
    \E c1, c2 \in Calls :
        /\ procs[c1].st = "spawned" /\ procs[c1].roomAnswer = "found"
        /\ procs[c2].st = "spawned" /\ procs[c2].roomAnswer = "created"

\* C26: a child that is running when the orchestrator's process ends, or at
\* any time after, is still running one step later: nothing that follows
\* from the end of the orchestrator ends a child.
C26_AgentsOutliveOrchestrator ==
    [][\A p \in Calls :
          (orchestrator' = "exited" /\ Active(p)) => procs'[p].st = "spawned"]_vars

\* the check q obtained the participant list
ListObtained(q) ==
    /\ queries[q].pc = "done"
    /\ queries[q].getRoom = "found"
    /\ queries[q].client = "ready"
    /\ ~queries[q].list.failed

\* C31: with the participant list obtained, checkAgentInRoom returns true
\* exactly when some participant has the agent flag in its metadata or,
\* without the flag (metadata absent, unparsable or lacking it), has an
\* identity that starts with agent- or contains assistant or bot.
C31_FlagOrIdentity ==
    \A q \in Queries :
        ListObtained(q) =>
            (queries[q].agentInRoom <=>
                \E i \in 1..Len(queries[q].list.participants) :
                    \/ queries[q].list.participants[i].metadata = "agentFlag"
                    \/ IdentityLooksLikeAgent(queries[q].list.participants[i].identity))

\* the step is the 'exit' event of the child of launch p
ExitStep(p) == procs[p].st \in Alive /\ procs'[p].st = "exited"

\* the room of launch p has a record, and it is the record of another launch
RecordOfAnother(p) ==
    /\ MapHas(agentProcesses, procs[p].room)
    /\ agentProcesses[procs[p].room].process # p

\* C32: the exit event of a child whose room's record belongs to a newer
\* launch (registered after a stopAgent, or by a concurrent startAgent)
\* leaves that record in the registry.
C32_ExitRemovesOwnRecordOnly ==
    [][\A p \in Calls :
          (ExitStep(p) /\ RecordOfAnother(p))
              => agentProcesses' = agentProcesses]_vars

\* the step is the grace-period check of call c
GraceStep(c) == calls[c].pc = "grace" /\ calls'[c].pc = "done"

\* C33: the error event and the grace-period check of a launch leave the
\* record of another launch of the same room as it is.
C33_HandlersTouchOwnRecordOnly ==
    [][\A p \in Calls :
          ((ErrorStep(p) \/ GraceStep(p)) /\ RecordOfAnother(p))
              => agentProcesses' = agentProcesses]_vars

\* C34: a child that was spawned, has not exited and was not signalled by
\* stopAgent is the child of its room's record, which carries its pid.
C34_RunningChildIsTracked ==
    \A p \in Calls :
        Active(p) =>
            /\ MapHas(agentProcesses, procs[p].room)
            /\ agentProcesses[procs[p].room].process = p
            /\ agentProcesses[procs[p].room].pid = procs[p].pid

\* C35: no record is the record of a child whose exit event was handled.
C35_NoRecordOfExited ==
    \A r \in Rooms :
        MapHas(agentProcesses, r) => procs[agentProcesses[r].process].st # "exited"

\* a child has exited and its room holds the record of a later launch
C35_Witness ==
    \E p \in Calls :
        /\ procs[p].st = "exited"
        /\ MapHas(agentProcesses, procs[p].room)
        /\ agentProcesses[procs[p].room].status \in {"starting", "running"}

\* the room's record is the starting record of launch c
StartingRecordOf(c) ==
    /\ MapHas(agentProcesses, calls[c].room)
    /\ agentProcesses[calls[c].room].process = c
    /\ agentProcesses[calls[c].room].status = "starting"

\* C36: a record registered as starting does not stay so for ever: it
\* becomes running or error, or is removed or replaced.
C36_StartingIsTransient ==
    \A c \in Calls : StartingRecordOf(c) ~> ~StartingRecordOf(c)

\* a record that left starting by each way: promoted, marked error
C36_Witness ==
    \E c1, c2 \in Calls :
        /\ calls[c1].pc = "done" /\ calls[c2].pc = "done"
        /\ MapHas(agentProcesses, calls[c1].room)
        /\ agentProcesses[calls[c1].room].process = c1
        /\ agentProcesses[calls[c1].room].status = "running"
        /\ MapHas(agentProcesses, calls[c2].room)
        /\ agentProcesses[calls[c2].room].process = c2
        /\ agentProcesses[calls[c2].room].status = "error"

\* the Origin header names the host of the Host header
OriginMatchesHost(req) ==
    /\ req.origin.present
    /\ req.host.present
    /\ \/ req.origin.value = <<"https://">> \o req.host.value
       \/ req.origin.value = <<"http://">> \o req.host.value

\* C37: a request to /api/livekit-token whose Origin is not set or does not
\* match its Host is answered 401; a request to any other path goes on.
C37_ForeignOriginRejected ==
    request.response # "none" =>
        /\ (request.pathname = TokenRoute /\ ~OriginMatchesHost(request))
               => request.response = "401"
        /\ request.pathname # TokenRoute => request.response = "next"

\* the last n elements of a sequence, all of them when it has fewer
LastOf(seq, n) ==
    IF Len(seq) <= n THEN seq ELSE SubSeq(seq, Len(seq) - n + 1, Len(seq))

\* C38: the history getContext returns holds at most maxContextSize
\* messages, and they are the last ones supplied, in the order supplied.
C38_HistoryIsBounded ==
    /\ Len(getContext) <= conversation.maxContextSize
    /\ getContext = LastOf(conversation.supplied, conversation.maxContextSize)

====
